---------------------------- MODULE Spec2Model ----------------------------
(***************************************************************************)
(* A model of the Cookie class (src/lib/main.umd.js, TypeScript source at  *)
(* lines 303-604) running against the DocumentCookie jar of the test       *)
(* set-up (lines 892-985).                                                 *)
(*                                                                         *)
(* A JavaScript string is a sequence of one-character strings, so that     *)
(* formatting, splitting and regular-expression matching are computed on   *)
(* the characters.  A JavaScript value is a tagged record.  Time is in     *)
(* milliseconds, as Date.now() gives it.                                   *)
(***************************************************************************)
EXTENDS Integers, Sequences, FiniteSets

(***************************************************************************)
(* Strings                                                                 *)
(***************************************************************************)

\* s.startsWith(lit, i), i counted from 1
StartsWithAt(s, lit, i) ==
    /\ i >= 1
    /\ i + Len(lit) - 1 <= Len(s)
    /\ \A j \in 1..Len(lit) : s[i + j - 1] = lit[j]

\* s.indexOf(lit) from position i on, counted from 1; 0 when there is none
RECURSIVE IndexOfFrom(_, _, _)
IndexOfFrom(s, lit, i) ==
    IF i + Len(lit) - 1 > Len(s) THEN 0
    ELSE IF lit = << >> \/ (s[i] = lit[1] /\ StartsWithAt(s, lit, i)) THEN i
    ELSE IndexOfFrom(s, lit, i + 1)

\* s.includes(lit)
Includes(s, lit) == IndexOfFrom(s, lit, 1) > 0

\* the number of (non-overlapping) occurrences of lit in s
RECURSIVE CountOf(_, _, _)
CountOf(s, lit, i) ==
    LET p == IndexOfFrom(s, lit, i)
    IN  IF p = 0 THEN 0 ELSE 1 + CountOf(s, lit, p + Len(lit))

\* s.split(sep), sep non-empty: the pieces, in order
RECURSIVE SplitFrom(_, _, _)
SplitFrom(s, sep, i) ==
    LET p == IndexOfFrom(s, sep, i)
    IN  IF p = 0 THEN << SubSeq(s, i, Len(s)) >>
        ELSE << SubSeq(s, i, p - 1) >> \o SplitFrom(s, sep, p + Len(sep))

Split(s, sep) == SplitFrom(s, sep, 1)

\* the longest run of characters other than c that starts at position i
RECURSIVE RunUntil(_, _, _)
RunUntil(s, c, i) ==
    IF i > Len(s) \/ s[i] = c THEN << >>
    ELSE << s[i] >> \o RunUntil(s, c, i + 1)

UpperCase == << "A", "B", "C", "D", "E", "F", "G", "H", "I", "J", "K", "L", "M",
                "N", "O", "P", "Q", "R", "S", "T", "U", "V", "W", "X", "Y", "Z" >>
LowerCase == << "a", "b", "c", "d", "e", "f", "g", "h", "i", "j", "k", "l", "m",
                "n", "o", "p", "q", "r", "s", "t", "u", "v", "w", "x", "y", "z" >>

\* one character, lower-cased (the i flag of a regular expression)
LowerOf == [c \in { UpperCase[n] : n \in 1..Len(UpperCase) } |->
               LowerCase[CHOOSE n \in 1..Len(UpperCase) : UpperCase[n] = c]]

LowerChar(c) == IF c \in DOMAIN LowerOf THEN LowerOf[c] ELSE c

ToLower(s) == [i \in 1..Len(s) |-> LowerChar(s[i])]

Digits == << "0", "1", "2", "3", "4", "5", "6", "7", "8", "9" >>

IsDigit(c) == \E n \in 1..Len(Digits) : Digits[n] = c

DigitValue(c) == (CHOOSE n \in 1..Len(Digits) : Digits[n] = c) - 1

\* Number.prototype.toString of an integer
RECURSIVE NatToString(_)
NatToString(n) ==
    IF n < 10 THEN << Digits[n + 1] >>
    ELSE NatToString(n \div 10) \o << Digits[(n % 10) + 1] >>

IntToString(n) == IF n < 0 THEN << "-" >> \o NatToString(-n) ELSE NatToString(n)

RECURSIVE DigitsToNat(_, _)
DigitsToNat(s, acc) ==
    IF s = << >> THEN acc
    ELSE DigitsToNat(Tail(s), acc * 10 + DigitValue(Head(s)))

AllDigits(s) == Len(s) > 0 /\ \A i \in 1..Len(s) : IsDigit(s[i])


(***************************************************************************)
(* JavaScript values                                                       *)
(***************************************************************************)

Null      == [t |-> "null"]
Undefined == [t |-> "undefined"]
NaN       == [t |-> "nan"]                      \* the number NaN
Circular  == [t |-> "circular"]                 \* an object that refers to itself
Bool(b)   == [t |-> "boolean", b |-> b]
Num(n)    == [n |-> n, t |-> "number"]          \* an integer
Str(s)    == [s |-> s, t |-> "string"]
Arr(xs)   == [t |-> "array", items |-> xs]      \* xs: a sequence of values
Obj(ps)   == [t |-> "object", props |-> ps]     \* ps: a sequence of <<name, value>>

\* value === null || value === undefined
IsNullish(v) == v.t \in {"null", "undefined"}

\* the truthiness of a value (!!value)
Truthy(v) ==
    CASE v.t \in {"null", "undefined", "nan"} -> FALSE
      [] v.t = "boolean" -> v.b
      [] v.t = "number"  -> v.n # 0
      [] v.t = "string"  -> v.s # << >>
      [] OTHER           -> TRUE

\* whether JSON.stringify(value) throws
RECURSIVE JSONThrows(_)
JSONThrows(v) ==
    CASE v.t = "circular" -> TRUE
      [] v.t = "array"    -> \E i \in 1..Len(v.items) : JSONThrows(v.items[i])
      [] v.t = "object"   -> \E i \in 1..Len(v.props) : JSONThrows(v.props[i][2])
      [] OTHER            -> FALSE

\* JSON.stringify(value), for a value it does not throw on.  Strings hold
\* neither quotes nor backslashes, so none of their characters is escaped.
RECURSIVE JSONStringify(_)
RECURSIVE JSONJoinItems(_, _)
RECURSIVE JSONJoinProps(_, _)
JSONStringify(v) ==
    CASE v.t \in {"null", "undefined", "nan"} -> << "n", "u", "l", "l" >>
      [] v.t = "boolean" -> IF v.b THEN << "t", "r", "u", "e" >>
                                   ELSE << "f", "a", "l", "s", "e" >>
      [] v.t = "number"  -> IntToString(v.n)
      [] v.t = "string"  -> << "\"" >> \o v.s \o << "\"" >>
      [] v.t = "array"   -> << "[" >> \o JSONJoinItems(v.items, 1) \o << "]" >>
      [] v.t = "object"  -> << "{" >> \o JSONJoinProps(v.props, 1) \o << "}" >>
JSONJoinItems(xs, i) ==
    IF i > Len(xs) THEN << >>
    ELSE (IF i > 1 THEN << "," >> ELSE << >>)
         \o JSONStringify(xs[i]) \o JSONJoinItems(xs, i + 1)
JSONJoinProps(ps, i) ==
    IF i > Len(ps) THEN << >>
    ELSE (IF i > 1 THEN << "," >> ELSE << >>)
         \o << "\"" >> \o ps[i][1] \o << "\"", ":" >>
         \o JSONStringify(ps[i][2]) \o JSONJoinProps(ps, i + 1)

\* value.toString() of a string, a number or a boolean
ValueToString(v) ==
    CASE v.t = "string"  -> v.s
      [] v.t = "number"  -> IntToString(v.n)
      [] v.t = "nan"     -> << "N", "a", "N" >>
      [] v.t = "boolean" -> IF v.b THEN << "t", "r", "u", "e" >>
                                   ELSE << "f", "a", "l", "s", "e" >>

(***************************************************************************)
(* JSON.parse: a recursive-descent parser of the JSON grammar, without     *)
(* fractions, exponents and string escapes (no text of the model has       *)
(* them).  A result is [ok, v, next]: next is the position after the value.*)
(***************************************************************************)

JSONFail == [ok |-> FALSE, v |-> Undefined, next |-> 0]

RECURSIVE SkipWs(_, _)
SkipWs(s, i) == IF i <= Len(s) /\ s[i] = " " THEN SkipWs(s, i + 1) ELSE i

JSONLiteral(s, i, lit, v) ==
    IF StartsWithAt(s, lit, i)
    THEN [ok |-> TRUE, v |-> v, next |-> i + Len(lit)]
    ELSE JSONFail

RECURSIVE DigitRun(_, _)
DigitRun(s, i) ==
    IF i <= Len(s) /\ IsDigit(s[i]) THEN << s[i] >> \o DigitRun(s, i + 1) ELSE << >>

\* -? (0 | [1-9][0-9]*), not followed by a fraction or an exponent
JSONNumber(s, i) ==
    LET neg  == i <= Len(s) /\ s[i] = "-"
        j    == IF neg THEN i + 1 ELSE i
        ds   == DigitRun(s, j)
        next == j + Len(ds)
    IN  IF ds = << >> \/ (Len(ds) > 1 /\ ds[1] = "0")
           \/ (next <= Len(s) /\ s[next] \in {".", "e", "E"})
        THEN JSONFail
        ELSE [ok |-> TRUE,
              v |-> Num(IF neg THEN 0 - DigitsToNat(ds, 0) ELSE DigitsToNat(ds, 0)),
              next |-> next]

\* "..." : the characters up to the next quote
JSONString(s, i) ==
    LET body == RunUntil(s, "\"", i + 1)
        close == i + 1 + Len(body)
    IN  IF i <= Len(s) /\ s[i] = "\"" /\ close <= Len(s)
           /\ \A k \in 1..Len(body) : body[k] # "\\"
        THEN [ok |-> TRUE, v |-> Str(body), next |-> close + 1]
        ELSE JSONFail

RECURSIVE JSONValue(_, _)
RECURSIVE JSONElements(_, _, _)
RECURSIVE JSONMembers(_, _, _)
JSONValue(s, i0) ==
    LET i == SkipWs(s, i0)
    IN  IF i > Len(s) THEN JSONFail
        ELSE CASE s[i] = "n"  -> JSONLiteral(s, i, << "n", "u", "l", "l" >>, Null)
               [] s[i] = "t"  -> JSONLiteral(s, i, << "t", "r", "u", "e" >>, Bool(TRUE))
               [] s[i] = "f"  -> JSONLiteral(s, i, << "f", "a", "l", "s", "e" >>, Bool(FALSE))
               [] s[i] = "\"" -> JSONString(s, i)
               [] s[i] = "["  ->
                    LET j == SkipWs(s, i + 1)
                    IN  IF j <= Len(s) /\ s[j] = "]"
                        THEN [ok |-> TRUE, v |-> Arr(<< >>), next |-> j + 1]
                        ELSE JSONElements(s, j, << >>)
               [] s[i] = "{"  ->
                    LET j == SkipWs(s, i + 1)
                    IN  IF j <= Len(s) /\ s[j] = "}"
                        THEN [ok |-> TRUE, v |-> Obj(<< >>), next |-> j + 1]
                        ELSE JSONMembers(s, j, << >>)
               [] OTHER       -> JSONNumber(s, i)
\* the elements of an array from position i on, up to its "]"
JSONElements(s, i, acc) ==
    LET e == JSONValue(s, i)
        j == SkipWs(s, e.next)
    IN  IF ~e.ok \/ j > Len(s) THEN JSONFail
        ELSE IF s[j] = "]"
             THEN [ok |-> TRUE, v |-> Arr(Append(acc, e.v)), next |-> j + 1]
        ELSE IF s[j] = ","
             THEN JSONElements(s, j + 1, Append(acc, e.v))
        ELSE JSONFail
\* the members of an object from position i on, up to its "}"
JSONMembers(s, i0, acc) ==
    LET i == SkipWs(s, i0)
        k == JSONString(s, i)
        c == SkipWs(s, k.next)
        e == JSONValue(s, c + 1)
        j == SkipWs(s, e.next)
    IN  IF ~k.ok \/ c > Len(s) \/ s[c] # ":" THEN JSONFail
        ELSE IF ~e.ok \/ j > Len(s) THEN JSONFail
        ELSE IF s[j] = "}"
             THEN [ok |-> TRUE, v |-> Obj(Append(acc, << k.v.s, e.v >>)), next |-> j + 1]
        ELSE IF s[j] = ","
             THEN JSONMembers(s, j + 1, Append(acc, << k.v.s, e.v >>))
        ELSE JSONFail

\* JSON.parse(text): [ok |-> FALSE] stands for the SyntaxError it throws
JSONParse(s) ==
    LET r == JSONValue(s, 1)
    IN  IF r.ok /\ SkipWs(s, r.next) = Len(s) + 1 THEN r ELSE JSONFail

(***************************************************************************)
(* Dates.  A Date is [t |-> "date", ms |-> its time value].  The calendar  *)
(* text of a date is collapsed into its epoch count: toUTCString() gives   *)
(* the whole seconds followed by " GMT" (it drops the milliseconds) and    *)
(* toISOString() the milliseconds followed by "Z".                         *)
(***************************************************************************)

MsPerSecond == 1000

DateOf(ms) == [t |-> "date", ms |-> ms]

\* a toUTCString that rounds to the nearest second
toUTCStringRounded(d) ==
    IntToString((d.ms + MsPerSecond \div 2) \div MsPerSecond) \o << " ", "G", "M", "T" >>

\* Date.prototype.toUTCString
toUTCString(d) == IntToString(d.ms \div MsPerSecond) \o << " ", "G", "M", "T" >>

\* Date.prototype.toISOString
toISOString(d) == IntToString(d.ms) \o << "Z" >>

\* the integer a text -?[0-9]+ denotes
IsIntText(s) ==
    IF Len(s) > 0 /\ s[1] = "-" THEN AllDigits(Tail(s)) ELSE AllDigits(s)

IntOfText(s) ==
    IF s[1] = "-" THEN 0 - DigitsToNat(Tail(s), 0) ELSE DigitsToNat(s, 0)

\* Date.parse(text): [ok |-> FALSE] stands for NaN
DateParse(s) ==
    LET n == Len(s)
    IN  IF n > 4 /\ SubSeq(s, n - 3, n) = << " ", "G", "M", "T" >>
               /\ IsIntText(SubSeq(s, 1, n - 4))
        THEN [ok |-> TRUE, ms |-> IntOfText(SubSeq(s, 1, n - 4)) * MsPerSecond]
        ELSE IF n > 1 /\ s[n] = "Z" /\ IsIntText(SubSeq(s, 1, n - 1))
        THEN [ok |-> TRUE, ms |-> IntOfText(SubSeq(s, 1, n - 1))]
        ELSE [ok |-> FALSE, ms |-> 0]

(***************************************************************************)
(* The cookie jar of the test set-up: class DocumentCookie, with the       *)
(* location the set-up gives it.  The set-up clears the jar's purge timer  *)
(* as soon as it has built the jar, so the jar drops an expired entry only *)
(* when it is read or overwritten.                                         *)
(***************************************************************************)

\* location.host and location.pathname of new Location('https://example.com')
LocationHost     == << "e", "x", "a", "m", "p", "l", "e", ".", "c", "o", "m" >>
LocationPathname == << "/" >>

\* s.replace(lit, ''): the first occurrence of lit removed
RemoveFirst(s, lit) ==
    LET p == IndexOfFrom(s, lit, 1)
    IN  IF p = 0 THEN s
        ELSE SubSeq(s, 1, p - 1) \o SubSeq(s, p + Len(lit), Len(s))

\* '.' + location.host.replace('www.', '')
JarDomain(host) == << "." >> \o RemoveFirst(host, << "w", "w", "w", "." >>)

\* location.pathname.replace(/\/$/, '')
JarPath(pathname) ==
    IF Len(pathname) > 0 /\ pathname[Len(pathname)] = "/"
    THEN SubSeq(pathname, 1, Len(pathname) - 1)
    ELSE pathname

\* cookie.match(/<lit>([^;]*)/)?.[1]: the capture of the leftmost match.
\* hay is s, or s lower-cased for the i flag; plus: ([^;]+) instead of
\* ([^;]*); semi: a ";" must follow the capture.
RECURSIVE MatchFrom(_, _, _, _, _, _)
MatchFrom(s, hay, lit, plus, semi, i) ==
    LET p   == IndexOfFrom(hay, lit, i)
        cap == RunUntil(s, ";", p + Len(lit))
    IN  IF p = 0 THEN [ok |-> FALSE, cap |-> << >>]
        ELSE IF /\ (plus => Len(cap) >= 1)
                /\ (semi => p + Len(lit) + Len(cap) <= Len(s))
             THEN [ok |-> TRUE, cap |-> cap]
        ELSE MatchFrom(s, hay, lit, plus, semi, p + 1)

Match(s, hay, lit, plus, semi) == MatchFrom(s, hay, lit, plus, semi, 1)

\* arr.splice(i, 1), i counted from 1
Splice(arr, i) == SubSeq(arr, 1, i - 1) \o SubSeq(arr, i + 1, Len(arr))

\* expires !== null && Date.parse(expires) < Date.now()
JarExpired(exp, now) ==
    /\ exp.t = "string"
    /\ DateParse(exp.s).ok
    /\ DateParse(exp.s).ms < now

\* the forEach of `get cookie`: index k (from 0) runs over the length the
\* array had when the loop began, an index past the array's end is passed
\* over, and an expired entry is spliced out while the loop runs.
RECURSIVE getCookieLoop(_, _, _, _, _)
getCookieLoop(jar, k, len0, acc, now) ==
    IF k >= len0 THEN [jar |-> jar, parts |-> acc]
    ELSE IF k >= Len(jar) THEN getCookieLoop(jar, k + 1, len0, acc, now)
    ELSE LET c == jar[k + 1]
         IN  IF c.domain # JarDomain(LocationHost)
             THEN getCookieLoop(jar, k + 1, len0, acc, now)
             ELSE IF c.path # JarPath(LocationPathname) /\ c.path # << "/" >>
             THEN getCookieLoop(jar, k + 1, len0, acc, now)
             ELSE IF JarExpired(c.expires, now)
             THEN getCookieLoop(Splice(jar, k + 1), k + 1, len0, acc, now)
             ELSE getCookieLoop(jar, k + 1, len0,
                      Append(acc, IF c.value.t = "string"
                                  THEN c.key \o << "=" >> \o c.value.s
                                  ELSE c.key),
                      now)

\* parts.join(sep)
RECURSIVE Join(_, _)
Join(parts, sep) ==
    IF parts = << >> THEN << >>
    ELSE IF Len(parts) = 1 THEN parts[1]
    ELSE parts[1] \o sep \o Join(Tail(parts), sep)

\* `get cookie`: the string read, and the jar after the read
getCookie(jar, now) ==
    LET r == getCookieLoop(jar, 0, Len(jar), << >>, now)
    IN  [str |-> Join(r.parts, << ";", " " >>), jar |-> r.jar]

\* `set cookie`: the jar after document.cookie = cookie
setCookie(jar, now, cookie) ==
    LET lower    == ToLower(cookie)
        keyValue == RunUntil(cookie, ";", 1)
        pieces   == Split(keyValue, << "=" >>)
        key      == pieces[1]
        value    == IF Len(pieces) >= 2 THEN Str(pieces[2]) ELSE Null
        maxAge   == Match(cookie, cookie, << "m", "a", "x", "-", "a", "g", "e", "=" >>,
                          TRUE, TRUE)
        expAttr  == Match(cookie, cookie, << "e", "x", "p", "i", "r", "e", "s", "=" >>,
                          TRUE, FALSE)
        domAttr  == Match(cookie, cookie, << "d", "o", "m", "a", "i", "n", "=" >>,
                          TRUE, TRUE)
        pathAttr == Match(cookie, lower, << "p", "a", "t", "h", "=" >>, FALSE, FALSE)
        ssAttr   == Match(cookie, lower, << "s", "a", "m", "e", "s", "i", "t", "e", "=" >>,
                          FALSE, FALSE)
        expires  == IF expAttr.ok THEN Str(expAttr.cap)
                    ELSE IF maxAge.ok
                    THEN (IF IsIntText(maxAge.cap)
                          THEN Str(toUTCString(DateOf(now + IntOfText(maxAge.cap) * MsPerSecond)))
                          ELSE Str(<< "I", "n", "v", "a", "l", "i", "d", " ",
                                      "D", "a", "t", "e" >>))
                    ELSE Null
        domain   == << "." >> \o (IF domAttr.ok THEN domAttr.cap
                                  ELSE RemoveFirst(LocationHost, << "w", "w", "w", "." >>))
        path     == IF pathAttr.ok THEN pathAttr.cap ELSE JarPath(LocationPathname)
        data     == [domain   |-> domain,
                     path     |-> path,
                     expires  |-> expires,
                     value    |-> value,
                     key      |-> key,
                     secure   |-> Includes(lower, << "s", "e", "c", "u", "r", "e" >>),
                     sameSite |-> IF ssAttr.ok THEN Str(ssAttr.cap) ELSE Null]
        found    == { i \in 1..Len(jar) : /\ jar[i].key = key
                                          /\ jar[i].path = path
                                          /\ jar[i].domain = domain }
        existing == IF found = { } THEN 0
                    ELSE CHOOSE i \in found : \A j \in found : i <= j
    IN  IF keyValue = << >> THEN jar
        ELSE IF existing > 0
             THEN (IF JarExpired(expires, now) THEN Splice(jar, existing)
                   ELSE [jar EXCEPT ![existing] = data])
        ELSE Append(jar, data)

(***************************************************************************)
(* class Cookie (the TypeScript source).  Each method is an operator over  *)
(* the jar, the default validity period #ttl and the clock, and gives what *)
(* the method returns together with the jar it leaves.                     *)
(***************************************************************************)

\* a function value, such as () => 'default': calling it gives `returns`
Fn(v) == [t |-> "function", returns |-> v]

\* the attributes object {}: every option undefined
NoAttributes ==
    [domain |-> Undefined, path |-> Undefined, expires |-> Undefined,
     secure |-> Undefined, sameSite |-> Undefined, ttl |-> Undefined]

\* Cookie.#stringify
stringify(value) ==
    IF IsNullish(value) THEN << >>
    ELSE IF value.t \in {"string", "number", "nan", "boolean"} THEN ValueToString(value)
    ELSE IF JSONThrows(value) THEN << >>
    ELSE JSONStringify(value)

\* a #expires that gives new Date(expires) without the isNaN test; the time
\* of a Date that names no instant is read as 0
expiresUnchecked(e) ==
    IF ~Truthy(e) THEN Undefined
    ELSE IF e.t = "date" THEN e
    ELSE DateOf(DateParse(e.s).ms)

\* Cookie.#expires
expires(e) ==
    IF ~Truthy(e) THEN Undefined
    ELSE IF e.t = "date" THEN e
    ELSE IF DateParse(e.s).ok THEN DateOf(DateParse(e.s).ms)
    ELSE Undefined

\* attributes.ttl ||= this.#ttl: the default takes the place of a ttl of 0
ResolveTtlIfFalsy(attrTtl, dflt) == IF ~Truthy(attrTtl) THEN dflt ELSE attrTtl

\* attributes.ttl ??= this.#ttl
ResolveTtl(attrTtl, dflt) == IF IsNullish(attrTtl) THEN dflt ELSE attrTtl

\* the expiration set writes: if (attributes.ttl) expires = now + ttl * 1000
ResolveExpires(attrTtl, attrExpires, now) ==
    IF Truthy(attrTtl) THEN DateOf(now + attrTtl.n * MsPerSecond)
    ELSE expires(attrExpires)

\* a marker for sameSite "None" and another for secure
SecureMarkerPerTrigger(attributes) ==
    (IF attributes.sameSite = Str(<< "N", "o", "n", "e" >>)
     THEN << ";", " ", "S", "e", "c", "u", "r", "e" >> ELSE << >>)
    \o (IF Truthy(attributes.secure)
        THEN << ";", " ", "S", "e", "c", "u", "r", "e" >> ELSE << >>)

\* the "; Secure" marker of set
SecureMarker(attributes) ==
    IF attributes.sameSite = Str(<< "N", "o", "n", "e" >>) \/ Truthy(attributes.secure)
    THEN << ";", " ", "S", "e", "c", "u", "r", "e" >>
    ELSE << >>

\* a check that throws only for secure: false
SameSiteErrorOnFalseOnly(attributes) ==
    attributes.sameSite = Str(<< "N", "o", "n", "e" >>) /\ attributes.secure = Bool(FALSE)

\* a check that throws for every sameSite without secure
SameSiteErrorForAnySameSite(attributes) ==
    Truthy(attributes.sameSite) /\ ~Truthy(attributes.secure)

\* the check of set that throws
SameSiteError(attributes) ==
    attributes.sameSite = Str(<< "N", "o", "n", "e" >>) /\ ~Truthy(attributes.secure)

\* document.cookie = cookie; return cookie
Assigned(jar, now, cookie) ==
    [ret |-> Str(cookie), threw |-> FALSE, calls |-> 0, writes |-> << cookie >>,
     jar |-> setCookie(jar, now, cookie)]

\* What a method gives is a record: ret, what it returns (Undefined for
\* void and when it throws); threw, whether it threw; calls, how often it
\* called the function it was given; writes, the strings it assigned to
\* document.cookie; jar, the jar it leaves.

\* Cookie.set: the attributes object it was given, as it leaves it, whether
\* it throws or not
setAttributes(dflt, now, attributes) ==
    [attributes EXCEPT
        !.ttl = ResolveTtl(attributes.ttl, dflt),
        !.expires = ResolveExpires(ResolveTtl(attributes.ttl, dflt),
                                   attributes.expires, now)]

\* Cookie.set
set(jar, dflt, now, key, value, attributes) ==
    LET base == IF IsNullish(value) THEN key
                ELSE key \o << "=" >> \o stringify(value)
        exp1 == ResolveExpires(ResolveTtl(attributes.ttl, dflt), attributes.expires, now)
        cookie ==
            base
            \o (IF Truthy(exp1)
                THEN << ";", " ", "e", "x", "p", "i", "r", "e", "s", "=" >> \o toUTCString(exp1)
                ELSE << >>)
            \o (IF Truthy(attributes.path)
                THEN << ";", " ", "p", "a", "t", "h", "=" >> \o attributes.path.s
                ELSE << >>)
            \o (IF Truthy(attributes.domain)
                THEN << ";", " ", "d", "o", "m", "a", "i", "n", "=" >> \o attributes.domain.s
                ELSE << >>)
            \o (IF Truthy(attributes.sameSite)
                THEN << ";", " ", "S", "a", "m", "e", "S", "i", "t", "e", "=" >>
                     \o attributes.sameSite.s
                ELSE << >>)
            \o SecureMarker(attributes)
    IN  IF SameSiteError(attributes)
        THEN [ret |-> Undefined, threw |-> TRUE, calls |-> 0, writes |-> << >>, jar |-> jar]
        ELSE Assigned(jar, now, cookie)

\* key.replace(/[.*+?^${}()|[\]\\]/g, '\\$&')
RegexSpecial == { ".", "*", "+", "?", "^", "$", "{", "}", "(", ")", "|", "[", "]", "\\" }

\* a key put into the pattern as it is
EscapeNothing(key) == key

RECURSIVE EscapeKey(_)
EscapeKey(key) ==
    IF key = << >> THEN << >>
    ELSE (IF Head(key) \in RegexSpecial THEN << "\\", Head(key) >> ELSE << Head(key) >>)
         \o EscapeKey(Tail(key))

\* the pattern the escaped key compiles to: a backslash and a character is
\* that character, a bare "." is any character, another character is itself
RECURSIVE KeyAtoms(_)
KeyAtoms(esc) ==
    IF esc = << >> THEN << >>
    ELSE IF Head(esc) = "\\" /\ Len(esc) >= 2
         THEN << [any |-> FALSE, c |-> esc[2]] >> \o KeyAtoms(Tail(Tail(esc)))
    ELSE IF Head(esc) = "."
         THEN << [any |-> TRUE, c |-> "."] >> \o KeyAtoms(Tail(esc))
    ELSE << [any |-> FALSE, c |-> Head(esc)] >> \o KeyAtoms(Tail(esc))

\* atoms followed by "=" match s at position p
AtomsMatchAt(s, atoms, p) ==
    /\ p >= 1
    /\ p + Len(atoms) <= Len(s)
    /\ \A j \in 1..Len(atoms) : atoms[j].any \/ s[p + j - 1] = atoms[j].c
    /\ s[p + Len(atoms)] = "="

\* new RegExp(`(^|;\\s*)${key}=([^;]*)`).exec(s): the leftmost match, from
\* start position q on; cap is the second group
RECURSIVE ExecFrom(_, _, _)
ExecFrom(s, atoms, q) ==
    LET ws    == SkipWs(s, q + 1) - (q + 1)
        afterSemi == { n \in 0..ws : AtomsMatchAt(s, atoms, q + 1 + n) }
        n     == CHOOSE m \in afterSemi : \A o \in afterSemi : m >= o
    IN  IF q > Len(s) THEN [ok |-> FALSE, cap |-> << >>]
        ELSE IF q = 1 /\ AtomsMatchAt(s, atoms, 1)
             THEN [ok |-> TRUE, cap |-> RunUntil(s, ";", Len(atoms) + 2)]
        ELSE IF s[q] = ";" /\ afterSemi # { }
             THEN [ok |-> TRUE, cap |-> RunUntil(s, ";", q + 1 + n + Len(atoms) + 1)]
        ELSE ExecFrom(s, atoms, q + 1)

\* a get that gives the captured text as it is
DecodeAsText(text) == Str(text)

\* a get that takes an empty captured text for no value
DecodeEmptyAsNull(text) ==
    IF text = << >> THEN Null
    ELSE IF JSONParse(text).ok THEN JSONParse(text).v ELSE Str(text)

\* the value get gives for the captured text: JSON.parse, or the text itself
Decode(text) == IF JSONParse(text).ok THEN JSONParse(text).v ELSE Str(text)

\* a fallback that is given back as it is, function or not
FallbackUncalled(fallback) == IF IsNullish(fallback) THEN Null ELSE fallback

\* fallback instanceof Function ? fallback() : fallback ?? null
Fallback(fallback) ==
    IF fallback.t = "function" THEN fallback.returns
    ELSE IF IsNullish(fallback) THEN Null
    ELSE fallback

\* a get that takes an empty text for no entry
getMatchedUnlessEmpty(m, fallback, jar) ==
    [ret   |-> IF m.ok /\ m.cap # << >> THEN Decode(m.cap) ELSE Fallback(fallback),
     found |-> m.ok /\ m.cap # << >>,
     threw |-> FALSE,
     calls |-> IF ~(m.ok /\ m.cap # << >>) /\ fallback.t = "function" THEN 1 ELSE 0,
     writes |-> << >>,
     jar   |-> jar]

\* Cookie.get, once the RegExp has given m; found tells whether it matched
getMatched(m, fallback, jar) ==
    [ret   |-> IF m.ok THEN Decode(m.cap) ELSE Fallback(fallback),
     found |-> m.ok,
     threw |-> FALSE,
     calls |-> IF ~m.ok /\ fallback.t = "function" THEN 1 ELSE 0,
     writes |-> << >>,
     jar   |-> jar]

\* Cookie.get, once document.cookie has given doc
getIn(doc, key, fallback) ==
    getMatched(ExecFrom(doc.str, KeyAtoms(EscapeKey(key)), 1), fallback, doc.jar)

\* Cookie.get
get(jar, now, key, fallback) == getIn(getCookie(jar, now), key, fallback)

\* a remember that gives the produced value after it has written it
rememberProduced(cookie, dflt, now, key, callback, attributes) ==
    IF cookie.ret = Null
    THEN [set(cookie.jar, dflt, now, key, callback.returns, attributes)
            EXCEPT !.calls = 1, !.ret = callback.returns]
    ELSE [ret |-> cookie.ret, threw |-> FALSE, calls |-> 0, writes |-> << >>,
          jar |-> cookie.jar]

\* a remember that asks the producer whenever get found nothing truthy
rememberUnlessTruthy(cookie, dflt, now, key, callback, attributes) ==
    IF ~Truthy(cookie.ret)
    THEN [set(cookie.jar, dflt, now, key, callback.returns, attributes)
            EXCEPT !.calls = 1]
    ELSE [ret |-> cookie.ret, threw |-> FALSE, calls |-> 0, writes |-> << >>,
          jar |-> cookie.jar]

\* Cookie.remember, once this.get(key) has given cookie
rememberWith(cookie, dflt, now, key, callback, attributes) ==
    IF cookie.ret = Null
    THEN [set(cookie.jar, dflt, now, key, callback.returns, attributes)
            EXCEPT !.calls = 1]
    ELSE [ret |-> cookie.ret, threw |-> FALSE, calls |-> 0, writes |-> << >>,
          jar |-> cookie.jar]

\* Cookie.remember: the attributes object it was given, as it leaves it, once
\* this.get(key) has given cookie
rememberAttributes(cookie, dflt, now, attributes) ==
    IF cookie.ret = Null THEN setAttributes(dflt, now, attributes) ELSE attributes

\* Cookie.remember
remember(jar, dflt, now, key, callback, attributes) ==
    rememberWith(get(jar, now, key, Undefined), dflt, now, key, callback, attributes)

\* the forEach of all: one get for the key of each non-empty segment
RECURSIVE allLoop(_, _, _, _)
RECURSIVE allPush(_, _, _, _, _)
allLoop(jar, now, segs, acc) ==
    IF segs = << >>
    THEN [ret |-> acc, threw |-> FALSE, calls |-> 0, writes |-> << >>, jar |-> jar]
    ELSE IF Head(segs) = << >> THEN allLoop(jar, now, Tail(segs), acc)
    ELSE allPush(get(jar, now, Split(Head(segs), << "=" >>)[1], Undefined),
                 now, segs, acc, Split(Head(segs), << "=" >>)[1])

\* an all that puts each pair in front of the earlier ones
allUnshift(g, now, segs, acc, key) ==
    allLoop(g.jar, now, Tail(segs), << [key |-> key, value |-> g.ret] >> \o acc)

\* cookies.push({ key, value: this.get(key) })
allPush(g, now, segs, acc, key) ==
    allLoop(g.jar, now, Tail(segs), Append(acc, [key |-> key, value |-> g.ret]))

\* Cookie.all, once the second read of document.cookie has given doc
allIn(doc, now) == allLoop(doc.jar, now, Split(doc.str, << ";", " " >>), << >>)

\* Cookie.all, once the first read of document.cookie has given doc
allAfter(doc, now) ==
    IF doc.str = << >>
    THEN [ret |-> << >>, threw |-> FALSE, calls |-> 0, writes |-> << >>, jar |-> doc.jar]
    ELSE allIn(getCookie(doc.jar, now), now)

\* Cookie.all: ret is the sequence of {key, value} objects
all(jar, now) == allAfter(getCookie(jar, now), now)

\* Cookie.remove: the set it makes
remove(jar, dflt, now, key, attributes) ==
    [set(jar, dflt, now, key, Str(<< >>), [attributes EXCEPT !.expires = DateOf(0)])
       EXCEPT !.ret = Undefined]

\* the forEach of clear: it ends at the first remove that throws
RECURSIVE clearLoop(_, _, _, _, _, _)
RECURSIVE clearNext(_, _, _, _, _, _)
clearLoop(jar, dflt, now, items, attributes, writes) ==
    IF items = << >>
    THEN [ret |-> Undefined, threw |-> FALSE, calls |-> 0, writes |-> writes, jar |-> jar]
    ELSE clearNext(remove(jar, dflt, now, Head(items).key, attributes),
                   dflt, now, Tail(items), attributes, writes)

\* the forEach of clear, once a remove has given r
clearNext(r, dflt, now, items, attributes, writes) ==
    IF r.threw THEN [r EXCEPT !.writes = writes]
    ELSE clearLoop(r.jar, dflt, now, items, attributes, writes \o r.writes)

\* Cookie.clear, once this.all() has given a
clearAll(a, dflt, now, attributes) ==
    clearLoop(a.jar, dflt, now, a.ret, attributes, << >>)

\* Cookie.clear
clear(jar, dflt, now, attributes) == clearAll(all(jar, now), dflt, now, attributes)

\* a has that tells whether get found the key
hasFound(g) == [g EXCEPT !.ret = Bool(g.found)]

\* Cookie.has, once this.get(key) has given g
hasOf(g) == [g EXCEPT !.ret = Bool(Truthy(g.ret))]

\* Cookie.has
has(jar, now, key) == hasOf(get(jar, now, key, Undefined))

\* the keys hasAny asks for: the one array it was given, or its arguments
hasAnyKeys(keys) ==
    IF Len(keys) = 1
    THEN (IF keys[1].t = "array" THEN keys[1].items ELSE << keys[1] >>)
    ELSE keys

\* keys.some((key) => this.has(key)): it ends at the first key has is true of
RECURSIVE some(_, _, _)
RECURSIVE everyNext(_, _, _)
RECURSIVE someNext(_, _, _)
some(jar, now, keys) ==
    IF keys = << >>
    THEN [ret |-> Bool(FALSE), threw |-> FALSE, calls |-> 0, writes |-> << >>,
          jar |-> jar]
    ELSE someNext(has(jar, now, Head(keys).s), now, Tail(keys))

\* a some that is true when has is true of every key
everyNext(h, now, keys) ==
    IF h.ret = Bool(FALSE) \/ keys = << >> THEN h ELSE some(h.jar, now, keys)

\* the some of hasAny, once this.has(key) has given h
someNext(h, now, keys) ==
    IF h.ret = Bool(TRUE) THEN h ELSE some(h.jar, now, keys)

\* Cookie.hasAny(...keys): keys is the sequence of the arguments
hasAny(jar, now, keys) == some(jar, now, hasAnyKeys(keys))

\* Cookie.isEmpty, once document.cookie has given doc
isEmptyOf(doc) ==
    [ret |-> Bool(Len(doc.str) = 0), threw |-> FALSE, calls |-> 0, writes |-> << >>,
     jar |-> doc.jar]

\* Cookie.isEmpty
isEmpty(jar, now) == isEmptyOf(getCookie(jar, now))

\* a count that takes the empty string for one segment, as ''.split('; ')
\* gives one
countOfSegments(a) ==
    [a EXCEPT !.ret = Num(IF a.ret = << >> THEN 1 ELSE Len(a.ret))]

\* Cookie.count, once this.all() has given a
countOf(a) == [a EXCEPT !.ret = Num(Len(a.ret))]

\* Cookie.count
count(jar, now) == countOf(all(jar, now))

\* Cookie.isNotEmpty, once this.isEmpty() has given e
isNotEmptyOf(e) == [e EXCEPT !.ret = Bool(~e.ret.b)]

\* Cookie.isNotEmpty
isNotEmpty(jar, now) == isNotEmptyOf(isEmpty(jar, now))

\* a keys that lists the keys from the last pair to the first
keysReversed(a) ==
    [a EXCEPT !.ret = [i \in 1..Len(a.ret) |-> a.ret[Len(a.ret) + 1 - i].key]]

\* Cookie.keys, once this.all() has given a
keysOf(a) == [a EXCEPT !.ret = [i \in 1..Len(a.ret) |-> a.ret[i].key]]

\* Cookie.keys
keys(jar, now) == keysOf(all(jar, now))

\* Cookie.dump, once this.get(key) has given g: the value goes to the
\* console, and nothing is returned
dumpOf(g) == [g EXCEPT !.ret = Undefined]

\* Cookie.dump
dump(jar, now, key) == dumpOf(get(jar, now, key, Undefined))

\* { ttl, ...attributes }: a ttl among the attributes takes the place of ttl
Spread(ttl, attributes) ==
    IF attributes.ttl = Undefined THEN [attributes EXCEPT !.ttl = ttl] ELSE attributes

\* a touch that writes whatever get has given
touchAlways(cookie, dflt, now, key, ttl, attributes) ==
    [set(cookie.jar, dflt, now, key, cookie.ret,
         Spread(ResolveTtl(ttl, dflt), attributes))
       EXCEPT !.ret = Undefined]

\* Cookie.touch, once this.get(key) has given cookie; a ttl that is not given
\* is null, and ttl ??= this.#ttl
touchWith(cookie, dflt, now, key, ttl, attributes) ==
    IF cookie.ret = Null
    THEN [ret |-> Undefined, threw |-> FALSE, calls |-> 0, writes |-> << >>,
          jar |-> cookie.jar]
    ELSE [set(cookie.jar, dflt, now, key, cookie.ret,
              Spread(ResolveTtl(ttl, dflt), attributes))
            EXCEPT !.ret = Undefined]

\* Cookie.touch
touch(jar, dflt, now, key, ttl, attributes) ==
    touchWith(get(jar, now, key, Undefined), dflt, now, key, ttl, attributes)

(***************************************************************************)
(* class Cookie of the UMD build (the compiled file the package ships).    *)
(* Its set, remove and the private functions are the statements of the     *)
(* source, compiled; the methods that read are built on its own get.       *)
(***************************************************************************)

\* get(key) of the build, once the RegExp has given m: it has no second
\* parameter, and gives null when there is no match
getMatchedUmd(m, jar) ==
    [ret   |-> IF m.ok THEN Decode(m.cap) ELSE Null,
     found |-> m.ok,
     threw |-> FALSE,
     calls |-> 0,
     writes |-> << >>,
     jar   |-> jar]

\* get of the build, once document.cookie has given doc
getInUmd(doc, key) ==
    getMatchedUmd(ExecFrom(doc.str, KeyAtoms(EscapeKey(key)), 1), doc.jar)

\* get of the build; a second argument is passed over
getUmd(jar, now, key, fallback) == getInUmd(getCookie(jar, now), key)

\* remember of the build
rememberUmd(jar, dflt, now, key, callback, attributes) ==
    rememberWith(getUmd(jar, now, key, Undefined), dflt, now, key, callback, attributes)

\* the forEach of all of the build
RECURSIVE allLoopUmd(_, _, _, _)
RECURSIVE allPushUmd(_, _, _, _, _)
allLoopUmd(jar, now, segs, acc) ==
    IF segs = << >>
    THEN [ret |-> acc, threw |-> FALSE, calls |-> 0, writes |-> << >>, jar |-> jar]
    ELSE IF Head(segs) = << >> THEN allLoopUmd(jar, now, Tail(segs), acc)
    ELSE allPushUmd(getUmd(jar, now, Split(Head(segs), << "=" >>)[1], Undefined),
                    now, segs, acc, Split(Head(segs), << "=" >>)[1])

allPushUmd(g, now, segs, acc, key) ==
    allLoopUmd(g.jar, now, Tail(segs), Append(acc, [key |-> key, value |-> g.ret]))

allInUmd(doc, now) == allLoopUmd(doc.jar, now, Split(doc.str, << ";", " " >>), << >>)

allAfterUmd(doc, now) ==
    IF doc.str = << >>
    THEN [ret |-> << >>, threw |-> FALSE, calls |-> 0, writes |-> << >>, jar |-> doc.jar]
    ELSE allInUmd(getCookie(doc.jar, now), now)

\* all of the build
allUmd(jar, now) == allAfterUmd(getCookie(jar, now), now)

\* clear, keys and count of the build
clearUmd(jar, dflt, now, attributes) == clearAll(allUmd(jar, now), dflt, now, attributes)

keysUmd(jar, now) == keysOf(allUmd(jar, now))

countUmd(jar, now) == countOf(allUmd(jar, now))

\* has of the build
hasUmd(jar, now, key) == hasOf(getUmd(jar, now, key, Undefined))

\* hasAny of the build
RECURSIVE someUmd(_, _, _)
RECURSIVE someNextUmd(_, _, _)
someUmd(jar, now, list) ==
    IF list = << >>
    THEN [ret |-> Bool(FALSE), threw |-> FALSE, calls |-> 0, writes |-> << >>,
          jar |-> jar]
    ELSE someNextUmd(hasUmd(jar, now, Head(list).s), now, Tail(list))

someNextUmd(h, now, list) ==
    IF h.ret = Bool(TRUE) THEN h ELSE someUmd(h.jar, now, list)

hasAnyUmd(jar, now, list) == someUmd(jar, now, hasAnyKeys(list))

\* isEmpty of the build: document.cookie.length === 0
isEmptyOfUmd(doc) ==
    [ret |-> Bool(Len(doc.str) = 0), threw |-> FALSE, calls |-> 0, writes |-> << >>,
     jar |-> doc.jar]

isEmptyUmd(jar, now) == isEmptyOfUmd(getCookie(jar, now))

isNotEmptyUmd(jar, now) == isNotEmptyOf(isEmptyUmd(jar, now))

\* touch of the build
touchUmd(jar, dflt, now, key, ttl, attributes) ==
    touchWith(getUmd(jar, now, key, Undefined), dflt, now, key, ttl, attributes)

(***************************************************************************)
(* The state machine: a caller makes one call after another, and the       *)
(* clock advances between calls.                                           *)
(***************************************************************************)

VARIABLES
    cookies,    \* DocumentCookie.#cookies
    ttl,        \* Cookie.#ttl
    now,        \* Date.now()
    held,       \* an attributes object the caller keeps: made, the options it
                \* was made with, and obj, the options it has now
    ttlArg,     \* history: the argument of the latest Cookie.ttl call
    last        \* history: the latest call, what it was given and what it gave

vars == << cookies, ttl, now, held, ttlArg, last >>

\* bounds of the model
StartMs  == 10000       \* Date.now() when the jar is built
TickMs   == 600         \* the clock advances in steps of TickMs
MaxTicks == 2           \* ... at most MaxTicks times
MaxJar   == 2           \* the jar holds at most MaxJar entries
MaxKeys  == 2           \* hasAny is asked about at most MaxKeys keys

\* `last` before any call; doc is the string document.cookie would have
\* given when the call began
NoCall ==
    [value |-> Undefined, key |-> << >>, attributes |-> NoAttributes,
     ret |-> Undefined, threw |-> FALSE, calls |-> 0, writes |-> << >>,
     fallback |-> Undefined, doc |-> << >>, op |-> "none"]

Doc == getCookie(cookies, now).str

\* beforeEach: a new jar, and Cookie.ttl(null)
Init ==
    /\ cookies = << >>
    /\ ttl = Null
    /\ now = StartMs
    /\ held = [made |-> NoAttributes, obj |-> NoAttributes]
    /\ ttlArg = Null
    /\ last = NoCall

\* time passes
Tick ==
    /\ now + TickMs <= StartMs + MaxTicks * TickMs
    /\ now' = now + TickMs
    /\ last' = [NoCall EXCEPT !.op = "tick"]
    /\ UNCHANGED << cookies, ttl, held, ttlArg >>

\* a Cookie.ttl that empties the store as well
CallTtlAndClear(Values) ==
    \E value \in Values :
        /\ ttl' = value
        /\ ttlArg' = value
        /\ cookies' = << >>
        /\ last' = [NoCall EXCEPT !.op = "ttl", !.value = value]
        /\ UNCHANGED << now, held >>

\* Cookie.ttl(value)
CallTtl(Values) ==
    \E value \in Values :
        /\ ttl' = value
        /\ ttlArg' = value
        /\ last' = [NoCall EXCEPT !.op = "ttl", !.value = value]
        /\ UNCHANGED << cookies, now, held >>

\* a call of a method that gave r: the jar it leaves, and the record of it
Called(op, key, value, attributes, fallback, r) ==
    /\ Len(r.jar) <= MaxJar
    /\ cookies' = r.jar
    /\ last' = [value |-> value, key |-> key, attributes |-> attributes,
                ret |-> r.ret, threw |-> r.threw, calls |-> r.calls,
                writes |-> r.writes, fallback |-> fallback, doc |-> Doc, op |-> op]
    /\ UNCHANGED << ttl, now, ttlArg >>

\* a call with arguments made for it: the object the caller keeps is not
\* among them
Call(op, key, value, attributes, fallback, r) ==
    /\ Called(op, key, value, attributes, fallback, r)
    /\ UNCHANGED held

\* const attributes = { ... }: the caller makes an attributes object to keep
Make(Attrs) ==
    \E attributes \in Attrs :
        /\ held' = [made |-> attributes, obj |-> attributes]
        /\ last' = [NoCall EXCEPT !.op = "make", !.attributes = attributes]
        /\ UNCHANGED << cookies, ttl, now, ttlArg >>

\* Cookie.set(key, value, attributes) with the object the caller keeps
CallSetHeld(Keys, Values) ==
    \E key \in Keys, value \in Values :
        /\ Called("set", key, value, held.obj, Undefined,
                  set(cookies, ttl, now, key, value, held.obj))
        /\ held' = [held EXCEPT !.obj = setAttributes(ttl, now, held.obj)]

\* Cookie.remember(key, callback, attributes) with the object the caller
\* keeps
CallRememberHeld(Keys, Values) ==
    \E key \in Keys, value \in Values :
        /\ Called("remember", key, value, held.obj, Undefined,
                  remember(cookies, ttl, now, key, Fn(value), held.obj))
        /\ held' = [held EXCEPT !.obj =
                        rememberAttributes(get(cookies, now, key, Undefined),
                                           ttl, now, held.obj)]

\* Cookie.set(key, value, attributes)
CallSet(Keys, Values, Attrs) ==
    \E key \in Keys, value \in Values, attributes \in Attrs :
        Call("set", key, value, attributes, Undefined,
             set(cookies, ttl, now, key, value, attributes))

\* Cookie.get(key, fallback)
CallGet(Keys, Fallbacks) ==
    \E key \in Keys, fallback \in Fallbacks :
        Call("get", key, Undefined, NoAttributes, fallback,
             get(cookies, now, key, fallback))

\* Cookie.remember(key, callback, attributes); value is what callback gives
CallRemember(Keys, Values, Attrs) ==
    \E key \in Keys, value \in Values, attributes \in Attrs :
        Call("remember", key, value, attributes, Undefined,
             remember(cookies, ttl, now, key, Fn(value), attributes))

\* Cookie.remove(key, attributes)
CallRemove(Keys, Attrs) ==
    \E key \in Keys, attributes \in Attrs :
        Call("remove", key, Undefined, attributes, Undefined,
             remove(cookies, ttl, now, key, attributes))

\* Cookie.clear(attributes)
CallClear(Attrs) ==
    \E attributes \in Attrs :
        Call("clear", << >>, Undefined, attributes, Undefined,
             clear(cookies, ttl, now, attributes))

\* Cookie.has(key)
CallHas(Keys) ==
    \E key \in Keys :
        Call("has", key, Undefined, NoAttributes, Undefined, has(cookies, now, key))

\* Cookie.hasAny(...keys)
CallHasAny(KeyLists) ==
    \E list \in KeyLists :
        Call("hasAny", << >>, Arr(list), NoAttributes, Undefined,
             hasAny(cookies, now, list))

\* Cookie.touch(key, ttl, attributes); value is the ttl given
CallTouch(Keys, Values, Attrs) ==
    \E key \in Keys, value \in Values, attributes \in Attrs :
        Call("touch", key, value, attributes, Undefined,
             touch(cookies, ttl, now, key, value, attributes))

\* Cookie.all()
CallAll ==
    Call("all", << >>, Undefined, NoAttributes, Undefined, all(cookies, now))

\* Cookie.keys()
CallKeys ==
    Call("keys", << >>, Undefined, NoAttributes, Undefined, keys(cookies, now))

\* Cookie.count()
CallCount ==
    Call("count", << >>, Undefined, NoAttributes, Undefined, count(cookies, now))

\* Cookie.isEmpty()
CallIsEmpty ==
    Call("isEmpty", << >>, Undefined, NoAttributes, Undefined, isEmpty(cookies, now))

\* Cookie.isNotEmpty()
CallIsNotEmpty ==
    Call("isNotEmpty", << >>, Undefined, NoAttributes, Undefined,
         isNotEmpty(cookies, now))

\* Cookie.dump(key)
CallDump(Keys) ==
    \E key \in Keys :
        Call("dump", key, Undefined, NoAttributes, Undefined, dump(cookies, now, key))

(***************************************************************************)
(* What the callers pass                                                   *)
(***************************************************************************)

Keys == { << "k" >>, << "j" >> }

None   == Str(<< "N", "o", "n", "e" >>)
Strict == Str(<< "S", "t", "r", "i", "c", "t" >>)
Lax    == Str(<< "L", "a", "x" >>)

\* values of every kind set takes
Values ==
    { Null, Undefined, NaN, Circular,
      Bool(TRUE), Bool(FALSE),
      Num(0), Num(42), Num(-7),
      Str(<< >>), Str(<< "v" >>), Str(<< "0" >>), Str(<< "4", "2" >>),
      Str(<< "n", "u", "l", "l" >>), Str(<< "t", "r", "u", "e" >>),
      Str(<< "a", ";", "b" >>), Str(<< "a", "=", "b" >>),
      Str(<< "{", " ", "i", "n", "v", "a", "l", "i", "d", ":", " ", "j", "s", "o", "n", " ", "}" >>),
      Arr(<< Num(1), Str(<< "t", "w", "o" >>), Bool(FALSE) >>),
      Arr(<< Str(<< "a", ";", "b" >>) >>),
      Obj(<< << << "i", "d" >>, Num(1) >> >>) }

\* what a producer or a caller of few words passes
SomeValues ==
    { Null, Num(0), Str(<< >>), Str(<< "x" >>), Str(<< "n", "u", "l", "l" >>) }

\* the arguments of Cookie.ttl
Ttls == { Null, Num(0), Num(1), Num(-1) }

\* attribute objects that set the expiration, and attribute objects that set
\* the SameSite and Secure options
ExpiryAttrs ==
    { [NoAttributes EXCEPT !.ttl = t, !.expires = e] :
        t \in { Undefined, Null, Num(0), Num(1), Num(-1) },
        e \in { Undefined, DateOf(0), DateOf(StartMs + 5 * MsPerSecond),
                Str(toISOString(DateOf(StartMs + 7 * MsPerSecond + 1))),
                Str(<< "s", "o", "o", "n" >>) } }

SameSiteAttrs ==
    { [NoAttributes EXCEPT !.sameSite = ss, !.secure = sec, !.ttl = t] :
        ss  \in { Undefined, Strict, Lax, None },
        sec \in { Undefined, Bool(TRUE), Bool(FALSE) },
        t   \in { Undefined, Num(1) } }

\* attribute objects with at most a ttl
TtlAttrs == { [NoAttributes EXCEPT !.ttl = t] : t \in { Undefined, Num(1) } }

\* the keys hasAny is asked about, "a" being a key no caller writes, and the
\* lists of at most MaxKeys of them
KeyArgs == { Str(<< "k" >>), Str(<< "j" >>), Str(<< "a" >>) }

KeyLists == UNION { [1..n -> KeyArgs] : n \in 0..MaxKeys }

\* the arguments of hasAny: a list of keys, or one array of keys
HasAnyArgs == KeyLists \cup { << Arr(list) >> : list \in KeyLists }

\* attribute objects with a ttl above 0, or none
LifeAttrs == { [NoAttributes EXCEPT !.ttl = t] : t \in { Undefined, Num(1), Num(2) } }

\* how long, in ms, a caller waits before it reads an entry it has written
Delays == { 0, 400, 600, 1000, 1001, 1400, 2000, 2400 }

\* the values touch finds stored; one is the JSON text of a string
TouchedValues ==
    { Null, Num(0), Str(<< "v" >>), Str(<< "n", "u", "l", "l" >>),
      Str(<< "\"", "0", "\"" >>),
      Obj(<< << << "i", "d" >>, Num(1) >> >>) }

\* the ttl touch is given: none, null, or a number of seconds
TouchTtls == { Undefined, Null, Num(0), Num(1) }

\* values of which some cannot be serialized, and attribute objects of which
\* some cannot be written: sameSite "None" without secure, an expires that
\* names no instant, a ttl that is no number
OddValues ==
    { Null, NaN, Circular, Str(<< "v" >>), Arr(<< Num(1), Circular >>),
      Obj(<< << << "i", "d" >>, Num(1) >> >>) }

OddAttrs ==
    { NoAttributes,
      [NoAttributes EXCEPT !.sameSite = None],
      [NoAttributes EXCEPT !.sameSite = None, !.secure = Bool(FALSE)],
      [NoAttributes EXCEPT !.sameSite = None, !.secure = Bool(TRUE)],
      [NoAttributes EXCEPT !.sameSite = Lax],
      [NoAttributes EXCEPT !.expires = Str(<< "s", "o", "o", "n" >>)],
      [NoAttributes EXCEPT !.expires = Str(<< >>)],
      [NoAttributes EXCEPT !.ttl = NaN] }

SomeSameSiteAttrs ==
    { NoAttributes,
      [NoAttributes EXCEPT !.sameSite = None],
      [NoAttributes EXCEPT !.sameSite = None, !.secure = Bool(TRUE)] }

\* a few of the arguments of hasAny
SomeHasAnyArgs ==
    { << >>, << Str(<< "a" >>) >>, << Str(<< "a" >>), Str(<< "k" >>) >>,
      << Arr(<< Str(<< "a" >>), Str(<< "k" >>) >>) >> }

\* the attribute objects remove is given: none, a path, and options that
\* only path is allowed to be
RemoveAttrs ==
    { NoAttributes,
      [NoAttributes EXCEPT !.path = Str(<< "/" >>)],
      [NoAttributes EXCEPT !.ttl = Num(1)],
      [NoAttributes EXCEPT !.domain = Str(LocationHost)],
      [NoAttributes EXCEPT !.sameSite = Lax],
      [NoAttributes EXCEPT !.sameSite = None],
      [NoAttributes EXCEPT !.secure = Bool(TRUE)] }

\* keys that may be taken for one another: one with a regex metacharacter,
\* one that the unescaped pattern would match, and parts of a key
StoredKeys == { << "k", "e", "y" >>, << "a", "X", "b" >>, << "a", ".", "b" >> }

AskedKeys == StoredKeys \cup { << "e", "y" >>, << "k", "e" >>, << "a" >>, << "b" >> }

\* the attributes objects a caller makes to use for several calls
HeldAttrs ==
    { NoAttributes,
      [NoAttributes EXCEPT !.ttl = Num(2)],
      [NoAttributes EXCEPT !.expires = DateOf(StartMs + 5 * MsPerSecond)],
      [NoAttributes EXCEPT !.sameSite = None] }

\* the second argument of get
Fallbacks == { Undefined, Null, Str(<< "d" >>), Num(0), Fn(Str(<< "f" >>)), Fn(Null) }

(***************************************************************************)
(* Specifications                                                          *)
(***************************************************************************)

\* entries written, read, removed and cleared while the clock advances and
\* the default validity period changes
Next ==
    \/ Tick
    \/ CallTtl({ Null, Num(1) })
    \/ CallSet(Keys, { Str(<< "v" >>), Null }, { NoAttributes })
    \/ CallGet(Keys, { Undefined })
    \/ CallRemove(Keys, { NoAttributes })
    \/ CallClear({ NoAttributes })

Spec == Init /\ [][Next]_vars

\* set with the expiration options and with the SameSite and Secure options
NextFormat ==
    \/ Tick
    \/ CallTtl(Ttls)
    \/ CallSet({ << "k" >> }, { Str(<< "v" >>) }, ExpiryAttrs \cup SameSiteAttrs)

SpecFormat == Init /\ [][NextFormat]_vars

\* values of every kind written and read back
NextCodec ==
    \/ CallSet({ << "k" >> }, Values, { NoAttributes })
    \/ CallSet({ << "j" >> }, { Str(<< "v" >>) }, { NoAttributes })
    \/ CallGet(Keys, { Undefined })
    \/ CallHas(Keys)
    \/ CallRemove({ << "j" >> }, { NoAttributes })
    \/ CallAll

SpecCodec == Init /\ [][NextCodec]_vars

\* reads with a fallback, and remember with a producer
NextRead ==
    \/ Tick
    \/ CallSet({ << "k" >> }, SomeValues, { NoAttributes })
    \/ CallGet({ << "k" >> }, Fallbacks)
    \/ CallRemember({ << "k" >> }, SomeValues, TtlAttrs)
    \/ CallRemove({ << "j" >> }, { NoAttributes })

SpecRead == Init /\ [][NextRead]_vars

\* keys asked about, one by one and several at once, while entries expire
NextQuery ==
    \/ Tick
    \/ CallSet(Keys, { Str(<< "v" >>), Str(<< >>) }, TtlAttrs)
    \/ CallHas(Keys)
    \/ CallHasAny(HasAnyArgs)

SpecQuery == Init /\ [][NextQuery]_vars

\* entries written with a validity period and read while the clock advances
NextExpiry ==
    \/ Tick
    \/ CallSet(Keys, { Str(<< "v" >>) }, LifeAttrs)
    \/ CallGet(Keys, { Undefined })
    \/ CallHas(Keys)
    \/ CallRemove({ << "j" >> }, { NoAttributes })

SpecExpiry == Init /\ [][NextExpiry]_vars

\* entries touched, with and without a default validity period, while the
\* clock advances
NextTouch ==
    \/ Tick
    \/ CallTtl({ Null, Num(0), Num(2) })
    \/ CallSet({ << "k" >> }, TouchedValues, { NoAttributes })
    \/ CallSet({ << "j" >> }, { Str(<< "v" >>) }, { NoAttributes })
    \/ CallTouch(Keys, TouchTtls, { NoAttributes })

SpecTouch == Init /\ [][NextTouch]_vars

\* every method, called with what it is not made for as well
NextAny ==
    \/ CallTtl({ Null })
    \/ CallSet({ << "k" >> }, OddValues, { NoAttributes })
    \/ CallSet({ << "k" >> }, { Str(<< "v" >>) }, OddAttrs)
    \/ CallGet({ << "k" >>, << "a" >> }, Fallbacks)
    \/ CallRemember({ << "a" >> }, { Circular, Str(<< "v" >>) }, SomeSameSiteAttrs)
    \/ CallAll
    \/ CallRemove({ << "k" >>, << "a" >> }, { NoAttributes })
    \/ CallClear({ NoAttributes })
    \/ CallHas({ << "k" >>, << "a" >> })
    \/ CallHasAny(SomeHasAnyArgs)
    \/ CallIsEmpty
    \/ CallIsNotEmpty
    \/ CallKeys
    \/ CallCount
    \/ CallTouch({ << "k" >>, << "a" >> }, { Undefined, Num(1) }, { NoAttributes })
    \/ CallDump({ << "k" >>, << "a" >> })

SpecAny == Init /\ [][NextAny]_vars

\* entries read by keys that resemble the keys of other entries
NextKeys ==
    \/ CallSet(StoredKeys, { Str(<< "v" >>), Str(<< "w" >>), Str(<< "e", "y", "=", "1" >>) },
               { NoAttributes })
    \/ CallGet(AskedKeys, { Undefined })
    \/ CallHas(AskedKeys)
    \/ CallRemove(StoredKeys, { NoAttributes })

SpecKeys == Init /\ [][NextKeys]_vars

\* one attributes object given to several calls, while the default validity
\* period changes
NextHeld ==
    \/ Tick
    \/ CallTtl({ Null, Num(1) })
    \/ Make(HeldAttrs)
    \/ CallSetHeld(Keys, { Str(<< "v" >>) })
    \/ CallRememberHeld({ << "j" >> }, { Str(<< "w" >>) })
    \/ CallGet({ << "k" >> }, { Undefined })

SpecHeld == Init /\ [][NextHeld]_vars

\* the methods that only read, called among sets and changes of the default
\* validity period while the clock advances
NextReadOnly ==
    \/ Tick
    \/ CallTtl({ Null, Num(1) })
    \/ CallSet(Keys, { Str(<< "v" >>) }, { NoAttributes })
    \/ CallGet(Keys, { Undefined, Str(<< "d" >>) })
    \/ CallAll
    \/ CallHas(Keys)
    \/ CallHasAny(SomeHasAnyArgs)
    \/ CallIsEmpty
    \/ CallIsNotEmpty
    \/ CallKeys
    \/ CallCount
    \/ CallDump(Keys)

SpecReadOnly == Init /\ [][NextReadOnly]_vars

\* entries removed with attributes of every kind
NextRemove ==
    \/ Tick
    \/ CallSet(Keys, { Str(<< "v" >>) }, { NoAttributes })
    \/ CallGet(Keys, { Undefined })
    \/ CallRemove(Keys, RemoveAttrs)

SpecRemove == Init /\ [][NextRemove]_vars

(***************************************************************************)
(* Properties                                                              *)
(***************************************************************************)

\* the text of the "; expires=" segment of a formatted entry; << >> when the
\* entry has none
ExpiresSegment(cookie) ==
    LET lit == << ";", " ", "e", "x", "p", "i", "r", "e", "s", "=" >>
        at  == IndexOfFrom(cookie, lit, 1)
    IN  IF at = 0 THEN << >> ELSE RunUntil(cookie, ";", at + Len(lit))

\* the text toUTCString gives for the instant `seconds` after ms
InSeconds(ms, seconds) == toUTCString(DateOf(ms + seconds * MsPerSecond))

\* an expires option that names an instant
ValidExpires(e) == e.t = "date" \/ (e.t = "string" /\ DateParse(e.s).ok)

\* C1: a set with sameSite "None" throws exactly when secure is not true; the
\* set that throws assigns nothing to document.cookie and leaves the jar as
\* it was; the set that succeeds returns a string with SameSite=None and
\* Secure in it.
C1_SameSiteNoneNeedsSecure ==
    /\ [](( last.op = "set" /\ last.attributes.sameSite = None ) =>
            /\ last.threw <=> (last.attributes.secure # Bool(TRUE))
            /\ last.threw => last.writes = << >>
            /\ ~last.threw =>
                /\ Includes(last.ret.s, << "S", "a", "m", "e", "S", "i", "t", "e", "=", "N", "o", "n", "e" >>)
                /\ Includes(last.ret.s, << ";", " ", "S", "e", "c", "u", "r", "e" >>))
    /\ [][( last'.op = "set" /\ last'.threw ) => cookies' = cookies]_vars

\* a set with sameSite "None" and no secure has thrown over a jar that holds
\* an entry
C1_Witness ==
    /\ last.op = "set"
    /\ last.attributes.sameSite = None
    /\ last.attributes.secure = Undefined
    /\ last.threw
    /\ cookies # << >>

\* C2: with a numeric ttl and a valid expires among the attributes,
\* the expires segment written is now + ttl seconds.
C2_TtlOverridesExpires ==
    ( /\ last.op = "set"
      /\ ~last.threw
      /\ last.attributes.ttl.t = "number"
      /\ ValidExpires(last.attributes.expires) ) =>
        ExpiresSegment(last.ret.s) = InSeconds(now, last.attributes.ttl.n)

\* C3: a set without a ttl of its own writes the expiration
\* now + N seconds when the latest Cookie.ttl call gave the number N, and no
\* expires segment when it gave null and the set has no expires either.
C3_DefaultTtlDecides ==
    ( last.op = "set" /\ ~last.threw /\ last.attributes.ttl = Undefined ) =>
        IF ttlArg = Null
        THEN last.attributes.expires = Undefined => ExpiresSegment(last.ret.s) = << >>
        ELSE ExpiresSegment(last.ret.s) = InSeconds(now, ttlArg.n)

\* no entry of the jar has expired
NoneExpired == \A i \in 1..Len(cookies) : ~JarExpired(cookies[i].expires, now)

\* the values C4 calls encodable
Encodable(v) == v.t \in { "string", "number", "boolean", "array", "object" } /\ ~JSONThrows(v)

\* the text of v has neither the ";" that ends a segment nor the "=" at
\* which the jar cuts a value
PlainText(v) ==
    \A i \in 1..Len(stringify(v)) : stringify(v)[i] \notin { ";", "=" }

\* C4 as stated: over a jar without expired entries, the get that follows
\* set(k, v) gives v for every encodable v, and takes the absent path for
\* null and undefined.
C4_RoundTrip ==
    ( last.op = "set" /\ NoneExpired ) =>
        LET g == get(cookies, now, last.key, Undefined)
        IN  IF IsNullish(last.value) THEN ~g.found
            ELSE Encodable(last.value) => g.found /\ g.ret = last.value

\* C4: the get that follows set(k, v) takes the absent path for null and
\* undefined and, over a jar without expired entries, finds the key for
\* every other v.  When it finds the key and the text of v has no ";" and no
\* "=", it gives v for a number, a boolean and a JSON-serializable object or
\* array, and for a string that is not JSON text; a string that is JSON text
\* reads back as the JSON value it spells, and NaN as the string "NaN".
C4_RoundTripOfPlainValues ==
    last.op = "set" =>
        LET v == last.value
            g == get(cookies, now, last.key, Undefined)
        IN  /\ IsNullish(v) => ~g.found /\ g.ret = Null
            /\ ( ~IsNullish(v) /\ NoneExpired ) => g.found
            /\ ( ~IsNullish(v) /\ g.found /\ PlainText(v) ) =>
                 /\ ( v.t \in { "number", "boolean", "array", "object" } /\ ~JSONThrows(v) )
                      => g.ret = v
                 /\ ( v.t = "string" /\ ~JSONParse(v.s).ok ) => g.ret = v
                 /\ ( v.t = "string" /\ JSONParse(v.s).ok )
                      => g.ret = JSONParse(v.s).v /\ g.ret # v
                 /\ v = NaN => g.ret = Str(<< "N", "a", "N" >>)

\* an object was set, and the get that follows gives it back
C4_Witness ==
    /\ last.op = "set"
    /\ last.value = Obj(<< << << "i", "d" >>, Num(1) >> >>)
    /\ get(cookies, now, last.key, Undefined).ret = last.value
    /\ Len(cookies) = 2

\* C5: remove(key) assigns one string to document.cookie, the key with an
\* empty value and an expiration before now, and the get(key) that follows
\* gives null.
C5_RemoveDeletes ==
    last.op = "remove" =>
        /\ Len(last.writes) = 1
        /\ StartsWithAt(last.writes[1], last.key \o << "=", ";" >>, 1)
        /\ DateParse(ExpiresSegment(last.writes[1])).ok
        /\ DateParse(ExpiresSegment(last.writes[1])).ms < now
        /\ get(cookies, now, last.key, Undefined).ret = Null

\* C6: after a clear() over a jar without expired entries, get gives null
\* for every key, count() is 0 and isEmpty() is true.
C6_ClearRemovesAll ==
    [][( last'.op = "clear" /\ NoneExpired ) =>
          /\ \A key \in Keys : get(cookies', now', key, Undefined).ret = Null
          /\ count(cookies', now').ret = Num(0)
          /\ isEmpty(cookies', now').ret = Bool(TRUE)]_vars

\* the segments of a document.cookie string
Segments(doc) == IF doc = << >> THEN << >> ELSE Split(doc, << ";", " " >>)

\* doc has a segment key=text
HasSegment(doc, key) ==
    \E i \in 1..Len(Segments(doc)) : StartsWithAt(Segments(doc)[i], key \o << "=" >>, 1)

\* doc has the segment key, without a value
HasBareSegment(doc, key) ==
    \E i \in 1..Len(Segments(doc)) : Segments(doc)[i] = key

\* the text of the first segment key=text of doc
SegmentText(doc, key) ==
    LET at  == { i \in 1..Len(Segments(doc)) :
                    StartsWithAt(Segments(doc)[i], key \o << "=" >>, 1) }
        seg == Segments(doc)[CHOOSE i \in at : \A j \in at : i <= j]
    IN  SubSeq(seg, Len(key) + 2, Len(seg))

\* what get(key) gives for doc when it is given no fallback
Stored(doc, key) ==
    IF HasSegment(doc, key) THEN Decode(SegmentText(doc, key)) ELSE Null

\* the entry set formats for a key, a value and attributes with at most a
\* ttl, when no default validity period is set
Formatted(key, value, attributes, ms) ==
    (IF IsNullish(value) THEN key ELSE key \o << "=" >> \o stringify(value))
    \o (IF attributes.ttl.t = "number" /\ attributes.ttl.n # 0
        THEN << ";", " ", "e", "x", "p", "i", "r", "e", "s", "=" >>
             \o InSeconds(ms, attributes.ttl.n)
        ELSE << >>)

\* C7 as stated: a remember for a key that document.cookie does not have
\* calls the producer once and gives the value produced.
C7_RememberReturnsProduced ==
    ( /\ last.op = "remember"
      /\ ~HasSegment(last.doc, last.key)
      /\ ~HasBareSegment(last.doc, last.key) ) =>
        /\ last.calls = 1
        /\ last.ret = last.value

\* C7: a remember for a key for which get gives null calls the producer
\* once, assigns to document.cookie the one entry that set formats for the
\* key, the value produced and the attributes, and gives that formatted
\* entry, not the value produced.
C7_RememberReturnsEntry ==
    ( last.op = "remember" /\ Stored(last.doc, last.key) = Null ) =>
        /\ last.calls = 1
        /\ ~last.threw
        /\ last.ret = Str(Formatted(last.key, last.value, last.attributes, now))
        /\ last.writes = << last.ret.s >>
        /\ last.ret # last.value

\* a remember over an empty jar has called its producer, which gave "x"
C7_Witness ==
    /\ last.op = "remember"
    /\ last.doc = << >>
    /\ last.value = Str(<< "x" >>)
    /\ last.calls = 1
    /\ Stored(Doc, last.key) = last.value

\* C8 as stated: over a jar without expired entries, the remember that
\* follows a remember that called its producer does not call its own and
\* gives the value the first producer gave.
C8_SecondRememberKeepsFirst ==
    ( last.op = "remember" /\ last.calls = 1 /\ NoneExpired ) =>
        LET second == remember(cookies, ttl, now, last.key, Fn(Str(<< "y" >>)), NoAttributes)
        IN  /\ second.calls = 0
            /\ second.ret = last.value

\* C8: a remember for a key for which get gives a value other than null
\* calls no producer, assigns nothing to document.cookie and gives that
\* value.  So, over a jar without expired entries, the remember that follows
\* a remember whose producer gave x calls no producer and gives what x reads
\* back as, when that is not null; when x is null or undefined or reads back
\* as null, it calls its producer again.
C8_RememberKeepsNonNull ==
    /\ ( last.op = "remember" /\ Stored(last.doc, last.key) # Null ) =>
          /\ last.calls = 0
          /\ last.writes = << >>
          /\ last.ret = Stored(last.doc, last.key)
    /\ ( last.op = "remember" /\ last.calls = 1 /\ NoneExpired ) =>
          LET second == remember(cookies, ttl, now, last.key, Fn(Str(<< "y" >>)), NoAttributes)
              back   == IF IsNullish(last.value) THEN Null
                        ELSE Decode(stringify(last.value))
          IN  IF back = Null
              THEN second.calls = 1
              ELSE second.calls = 0 /\ second.writes = << >> /\ second.ret = back

\* a remember found "x", which an earlier producer gave, and called nothing
C8_Witness ==
    /\ last.op = "remember"
    /\ last.calls = 0
    /\ last.value = Str(<< "n", "u", "l", "l" >>)
    /\ last.ret = Str(<< "x" >>)
    /\ now > StartMs

\* C9 as stated: a get for a key that document.cookie does not have gives
\* the fallback, called when it is a function, and null without one; a get
\* for a key that document.cookie has calls no fallback and gives the stored
\* value decoded, which is null for a key stored without a value.
C9_FallbackOnlyWhenAbsent ==
    last.op = "get" =>
        IF HasSegment(last.doc, last.key) \/ HasBareSegment(last.doc, last.key)
        THEN last.calls = 0 /\ last.ret = Stored(last.doc, last.key)
        ELSE /\ last.calls = (IF last.fallback.t = "function" THEN 1 ELSE 0)
             /\ last.ret = IF last.fallback.t = "function" THEN last.fallback.returns
                           ELSE IF IsNullish(last.fallback) THEN Null
                           ELSE last.fallback

\* C9: a get for a key of which document.cookie has no segment key=text
\* gives the fallback, called once when it is a function, and null without
\* one; a key stored without a value is such a key.  A get for a key with a
\* segment key=text calls no fallback and gives the text decoded.
C9_FallbackUnlessKeyEqualsText ==
    last.op = "get" =>
        IF HasSegment(last.doc, last.key)
        THEN last.calls = 0 /\ last.ret = Decode(SegmentText(last.doc, last.key))
        ELSE /\ last.calls = (IF last.fallback.t = "function" THEN 1 ELSE 0)
             /\ last.ret = IF last.fallback.t = "function" THEN last.fallback.returns
                           ELSE IF IsNullish(last.fallback) THEN Null
                           ELSE last.fallback

\* a get with a function for a fallback called it, over a jar that holds
\* the key without a value
C9_Witness ==
    /\ last.op = "get"
    /\ last.fallback = Fn(Str(<< "f" >>))
    /\ HasBareSegment(last.doc, last.key)
    /\ last.calls = 1
    /\ last.ret = Str(<< "f" >>)

C11_HasAnyOfEitherShape ==
    /\ [](\A list \in KeyLists :
             hasAny(cookies, now, << Arr(list) >>) = hasAny(cookies, now, list))
    /\ [][( last'.op = "hasAny" /\ NoneExpired ) =>
             \E list \in KeyLists :
                /\ last'.value.items \in { list, << Arr(list) >> }
                /\ last'.ret = Bool(\E i \in 1..Len(list) :
                                       has(cookies, now, list[i].s).ret = Bool(TRUE))]_vars

\* hasAny was given an array of two keys and gave true for the second of
\* them, the first being stored with the empty string
C11_Witness ==
    /\ last.op = "hasAny"
    /\ last.value.items = << Arr(<< Str(<< "k" >>), Str(<< "j" >>) >>) >>
    /\ last.ret = Bool(TRUE)
    /\ Stored(Doc, << "k" >>) = Str(<< >>)
    /\ Stored(Doc, << "j" >>) = Str(<< "v" >>)

\* the entries of the jar under another key than `key` have not expired at
\* the instant ms
OthersLive(key, ms) ==
    \A i \in 1..Len(cookies) : cookies[i].key # key => ~JarExpired(cookies[i].expires, ms)

\* the instant `seconds` after ms, cut to the whole second
WholeSecond(ms, seconds) == ((ms + seconds * MsPerSecond) \div MsPerSecond) * MsPerSecond

\* the jar holds `key` with a text and an expiration that has not passed
Live(key) ==
    \E i \in 1..Len(cookies) :
        /\ cookies[i].key = key
        /\ cookies[i].value.t = "string"
        /\ ~JarExpired(cookies[i].expires, now)

\* the jar holds `key` with an expiration that has passed
Lapsed(key) ==
    \E i \in 1..Len(cookies) :
        cookies[i].key = key /\ JarExpired(cookies[i].expires, now)

TouchTtl == IF last.value.t = "number" THEN last.value ELSE ttlArg

\* C13: a touch of a key for which get gives a value assigns one entry to
\* document.cookie; the get that follows gives the value the get before gave;
\* the entry's expiration is now + T seconds, T being the ttl given and else
\* the default validity period, and the entry has no expiration when there is
\* neither.
C13_TouchKeepsValueSetsExpiry ==
    ( last.op = "touch" /\ Stored(last.doc, last.key) # Null ) =>
        /\ Len(last.writes) = 1
        /\ get(cookies, now, last.key, Undefined).ret = Stored(last.doc, last.key)
        /\ ExpiresSegment(last.writes[1]) =
              IF TouchTtl = Null THEN << >> ELSE InSeconds(now, TouchTtl.n)

\* C14: a touch of a key for which get gives null assigns nothing to
\* document.cookie and leaves the default validity period as it was; the jar
\* is left as a read leaves it, unchanged when no entry had expired, and the
\* get that follows then gives null again.
C14_TouchOfAbsentKeyIsNoOp ==
    [][( last'.op = "touch" /\ Stored(last'.doc, last'.key) = Null ) =>
          /\ last'.writes = << >>
          /\ ~last'.threw
          /\ ttl' = ttl
          /\ cookies' = getCookie(cookies, now).jar
          /\ NoneExpired =>
                /\ cookies' = cookies
                /\ get(cookies', now', last'.key, Undefined).ret = Null]_vars

\* a touch with a ttl found the key stored with the text null, and wrote
\* nothing
C14_Witness ==
    /\ last.op = "touch"
    /\ last.value = Num(1)
    /\ last.doc = << "k", "=", "n", "u", "l", "l" >>
    /\ last.key = << "k" >>
    /\ last.writes = << >>
    /\ Doc = last.doc

\* how many segments of a formatted entry are the Secure marker
SecureMarkers(cookie) ==
    Cardinality({ i \in 1..Len(Segments(cookie)) :
                    Segments(cookie)[i] = << "S", "e", "c", "u", "r", "e" >> })

\* C15: the string a set gives and assigns when it does not throw has the
\* Secure marker once when sameSite is "None" or secure is true, and not at
\* all otherwise.
C15_SecureMarkerOnce ==
    ( last.op = "set" /\ ~last.threw ) =>
        /\ last.writes = << last.ret.s >>
        /\ SecureMarkers(last.ret.s) =
              IF last.attributes.sameSite = None \/ last.attributes.secure = Bool(TRUE)
              THEN 1 ELSE 0
        /\ CountOf(last.ret.s, << "S", "e", "c", "u", "r", "e" >>, 1)
              = SecureMarkers(last.ret.s)

\* a set with sameSite "None" and secure true gave a string with one marker;
\* the entry took the place of another
C15_Witness ==
    /\ last.op = "set"
    /\ ~last.threw
    /\ last.attributes.sameSite = None
    /\ last.attributes.secure = Bool(TRUE)
    /\ SecureMarkers(last.ret.s) = 1
    /\ last.doc # << >>

\* C16: a call throws only when it is a set, or a remember that sets, with
\* sameSite "None" and without secure true; no other call throws, whatever
\* value, expires or ttl it is given, and no get, has, hasAny, touch or dump
\* of a key that is not stored throws.
C16_OnlySameSiteErrorIsRaised ==
    /\ last.threw =>
          /\ last.op \in { "set", "remember" }
          /\ last.attributes.sameSite = None
          /\ last.attributes.secure # Bool(TRUE)
    /\ ( last.op = "set" /\ last.attributes.sameSite # None ) => ~last.threw
    /\ ( last.op \in { "get", "has", "hasAny", "touch", "dump" }
         /\ ~HasSegment(last.doc, last.key) ) =>
          /\ ~last.threw
          /\ last.op = "get" => last.ret = Fallback(last.fallback)
          /\ last.op = "has" => last.ret = Bool(FALSE)
          /\ last.op \in { "touch", "dump" } => last.ret = Undefined

\* a set of a value that cannot be serialized has not thrown, over a jar
\* that holds what a remember has written
C16_Witness ==
    /\ last.op = "set"
    /\ last.value = Circular
    /\ ~last.threw
    /\ last.writes = << << "k", "=" >> >>
    /\ HasSegment(last.doc, << "a" >>)

\* C17: set(key, null) and set(key, undefined) assign the key alone, and
\* set(key, "") assigns key= ; over a jar without expired entries the get
\* that follows gives null for the former and the empty string for the
\* latter.
C17_AbsentIsNotEmpty ==
    ( last.op = "set" /\ ~last.threw ) =>
        /\ IsNullish(last.value) =>
              /\ last.writes = << last.key >>
              /\ last.ret = Str(last.key)
              /\ ~get(cookies, now, last.key, Undefined).found
              /\ get(cookies, now, last.key, Undefined).ret = Null
              /\ NoneExpired => HasBareSegment(Doc, last.key)
        /\ last.value = Str(<< >>) =>
              /\ last.writes = << last.key \o << "=" >> >>
              /\ last.ret = Str(last.key \o << "=" >>)
              /\ ~HasBareSegment(Doc, last.key)
              /\ NoneExpired =>
                    /\ get(cookies, now, last.key, Undefined).found
                    /\ get(cookies, now, last.key, Undefined).ret = Str(<< >>)

\* the empty string was set for a key, and the get that follows gives it
C17_Witness ==
    /\ last.op = "set"
    /\ last.value = Str(<< >>)
    /\ Doc = << "j", "=", "v", ";", " ", "k", "=" >>
    /\ get(cookies, now, last.key, Undefined).ret = Str(<< >>)

\* the pairs all is to give for the string doc: one for each segment that is
\* not empty, in the order of the segments, with the text before the first
\* "=" for a key and what get gives for that key for a value
Pairs(doc) ==
    LET segs == SelectSeq(Segments(doc), LAMBDA seg : seg # << >>)
    IN  [i \in 1..Len(segs) |->
            [key   |-> RunUntil(segs[i], "=", 1),
             value |-> Stored(doc, RunUntil(segs[i], "=", 1))]]

\* the keys of the entries of a jar, in the order the jar holds them
JarKeys(jar) == [i \in 1..Len(jar) |-> jar[i].key]

\* C18: over a jar without expired entries, all gives one pair for each
\* segment of document.cookie that is not empty, in the order of the
\* segments, which is the order in which the keys were first set; each value
\* is what get gives for the key; all gives the empty sequence when
\* document.cookie is the empty string.  A set of a key the store has leaves
\* the key where it was, and a set of another key puts it last.
C18_AllMirrorsTheStore ==
    /\ [][( last'.op = "all" /\ NoneExpired ) =>
             /\ last'.ret = Pairs(last'.doc)
             /\ Len(last'.ret) = Len(cookies)
             /\ \A i \in 1..Len(cookies) : last'.ret[i].key = cookies[i].key
             /\ last'.doc = << >> => last'.ret = << >>
             /\ cookies' = cookies]_vars
    /\ [][( last'.op = "set" /\ NoneExpired ) =>
             JarKeys(cookies') =
                IF \E i \in 1..Len(cookies) : cookies[i].key = last'.key
                THEN JarKeys(cookies)
                ELSE Append(JarKeys(cookies), last'.key)]_vars

\* all gave two pairs: the key set first, and then the key set second with
\* the object it was given
C18_Witness ==
    /\ last.op = "all"
    /\ Len(last.ret) = 2
    /\ last.ret[1] = [key |-> << "j" >>, value |-> Str(<< "v" >>)]
    /\ last.ret[2] = [key |-> << "k" >>, value |-> Obj(<< << << "i", "d" >>, Num(1) >> >>)]

\* the jar holds no entry that has not expired: the store is empty
NoLiveEntry == \A i \in 1..Len(cookies) : JarExpired(cookies[i].expires, now)

\* C19: a clear of an empty store assigns nothing to document.cookie and
\* leaves the jar as a read leaves it; count() is 0 before and after, and
\* document.cookie is the empty string after.  A clear that follows a clear
\* of a jar without expired entries leaves the jar as the first left it.
C19_ClearOfEmptyStoreIsNoOp ==
    /\ [][( last'.op = "clear" /\ NoLiveEntry ) =>
             /\ last'.doc = << >>
             /\ last'.writes = << >>
             /\ ~last'.threw
             /\ ttl' = ttl
             /\ cookies' = getCookie(cookies, now).jar
             /\ count(cookies, now).ret = Num(0)
             /\ count(cookies', now').ret = Num(0)
             /\ Len(getCookie(cookies', now').str) = 0]_vars
    /\ [][( last'.op = "clear" /\ NoneExpired ) =>
             clear(cookies', ttl', now', last'.attributes).jar = cookies']_vars

\* a clear found the store empty, with a default validity period given and
\* the clock advanced
C19_Witness ==
    /\ last.op = "clear"
    /\ last.doc = << >>
    /\ last.writes = << >>
    /\ cookies = << >>
    /\ ttl = Num(1)
    /\ now > StartMs

\* C20: a set of a value that JSON.stringify throws on does not raise, and the
\* string it assigns starts with the key alone, with no "=" and no value
\* after it, as the string a set of null assigns does.
C20_UnserializableIsBareKey ==
    ( last.op = "set" /\ JSONThrows(last.value) ) =>
        /\ ~last.threw
        /\ Len(last.writes) = 1
        /\ RunUntil(last.writes[1], ";", 1) = last.key
        /\ last.ret = Str(last.writes[1])

\* the key has an entry in doc whose text after the "=" is empty
HasEmptyText(doc, key) == HasSegment(doc, key) /\ SegmentText(doc, key) = << >>

\* C21 as stated: a get for a key whose stored text is empty gives the
\* fallback, called when it is a function, and null without one, and never
\* the empty string.
C21_EmptyTextReadsAsAbsent ==
    ( last.op = "get" /\ HasEmptyText(last.doc, last.key) ) =>
        /\ last.ret = Fallback(last.fallback)
        /\ last.ret # Str(<< >>)

\* C21: a get for a key whose stored text is empty gives the empty string
\* and calls no fallback, whatever fallback it is given; over a jar without
\* expired entries has(key) is then false while all, keys and count list the
\* key and isEmpty is false.  The fallback is given for a key stored without
\* a value.
C21_EmptyTextReadsAsEmptyString ==
    /\ ( last.op = "get" /\ HasEmptyText(last.doc, last.key) ) =>
          /\ last.ret = Str(<< >>)
          /\ last.calls = 0
          /\ ~last.threw
    /\ ( last.op = "get" /\ ~HasSegment(last.doc, last.key) ) =>
          last.ret = Fallback(last.fallback)
    /\ \A key \in Keys :
          ( NoneExpired /\ HasEmptyText(Doc, key) ) =>
              /\ has(cookies, now, key).ret = Bool(FALSE)
              /\ \E i \in 1..Len(all(cookies, now).ret) :
                    all(cookies, now).ret[i] = [key |-> key, value |-> Str(<< >>)]
              /\ \E i \in 1..Len(keys(cookies, now).ret) : keys(cookies, now).ret[i] = key
              /\ count(cookies, now).ret.n >= 1
              /\ isEmpty(cookies, now).ret = Bool(FALSE)

\* a get with the fallback "d" found the key stored with an empty text, and
\* gave the empty string
C21_Witness ==
    /\ last.op = "get"
    /\ last.fallback = Str(<< "d" >>)
    /\ last.doc = << "k", "=" >>
    /\ last.ret = Str(<< >>)

\* the text set writes for an expires option when no ttl replaces it: the
\* UTC string of the instant it names, and nothing when it names none
NormalizedExpires(e) ==
    IF ~ValidExpires(e) THEN << >>
    ELSE IF e.t = "date" THEN toUTCString(e)
    ELSE toUTCString(DateOf(DateParse(e.s).ms))

NoTtlInEffect == ~Truthy(ResolveTtl(last.attributes.ttl, ttl))

\* C23: a set whose expires is a string that names no instant does not throw
\* and, when no ttl is in effect, writes no expires segment; when no ttl is
\* in effect a string that names an instant and a Date are written as
\* expires= and the UTC string of the instant.
C23_UnparseableExpiresIsNoExpires ==
    ( last.op = "set" /\ last.attributes.sameSite = Undefined ) =>
        /\ ( last.attributes.expires.t = "string"
             /\ ~ValidExpires(last.attributes.expires) ) =>
               /\ ~last.threw
               /\ Len(last.writes) = 1
               /\ NoTtlInEffect =>
                     /\ ExpiresSegment(last.writes[1]) = << >>
                     /\ ~Includes(last.writes[1], << "e", "x", "p", "i", "r", "e", "s" >>)
        /\ ( ValidExpires(last.attributes.expires) /\ NoTtlInEffect ) =>
               /\ ~last.threw
               /\ last.attributes.expires.t = "date" =>
                     ExpiresSegment(last.ret.s) = toUTCString(last.attributes.expires)
               /\ last.attributes.expires.t = "string" =>
                     /\ DateParse(last.attributes.expires.s).ok
                     /\ ExpiresSegment(last.ret.s) =
                           toUTCString(DateOf(DateParse(last.attributes.expires.s).ms))

\* a set with an expires that names no instant, and no ttl, wrote the key
\* and the value alone, and the jar holds the entry without an expiration
C23_Witness ==
    /\ last.op = "set"
    /\ last.attributes.expires = Str(<< "s", "o", "o", "n" >>)
    /\ last.attributes.ttl = Undefined
    /\ ttl = Null
    /\ last.writes = << << "k", "=", "v" >> >>
    /\ Len(cookies) = 1
    /\ cookies[1].expires = Null

\* the attributes object with the path of attributes and nothing else
OnlyPath(attributes) == [NoAttributes EXCEPT !.path = attributes.path]

\* C24: a remove does not throw, and the one string it assigns to
\* document.cookie is the string a remove with the path alone, of the
\* attributes it was given, assigns: the ttl, domain, sameSite and secure
\* among them make no difference.
C24_RemoveCarriesOnlyPath ==
    last.op = "remove" =>
        /\ ~last.threw
        /\ last.writes = remove(<< >>, ttl, now, last.key, OnlyPath(last.attributes)).writes

\* the segments of doc whose text before the first "=" is key, and which
\* have a "="
SegmentsOfKey(doc, key) ==
    { i \in 1..Len(Segments(doc)) :
        /\ RunUntil(Segments(doc)[i], "=", 1) = key
        /\ Len(Segments(doc)[i]) > Len(key) }

\* the text after the first "=" of the first segment of doc with that key
TextOfKey(doc, key) ==
    LET i == CHOOSE i \in SegmentsOfKey(doc, key) : \A j \in SegmentsOfKey(doc, key) : i <= j
    IN  SubSeq(Segments(doc)[i], Len(key) + 2, Len(Segments(doc)[i]))

\* C25: a get gives the decoded text of the first entry whose key is the key
\* asked for, character by character, and null when document.cookie has no
\* such entry, whatever other entries it has: a "." in the key stands for
\* itself, and a key that is a part of a stored key finds nothing.
C25_GetMatchesTheExactKey ==
    last.op = "get" =>
        /\ IF SegmentsOfKey(last.doc, last.key) # { }
           THEN last.ret = Decode(TextOfKey(last.doc, last.key))
           ELSE last.ret = Null
        /\ last.key \in AskedKeys \ StoredKeys => last.ret = Null

\* a get of "a.b" gave null over the entries aXb=v and key=w
C25_Witness ==
    /\ last.op = "get"
    /\ last.key = << "a", ".", "b" >>
    /\ last.doc = << "a", "X", "b", "=", "v", ";", " ", "k", "e", "y", "=", "w" >>
    /\ last.ret = Null

\* C26: in every state, count() is the length of all(), keys() lists the keys
\* of all() in its order, and isNotEmpty() is the negation of isEmpty(),
\* which is true exactly when document.cookie is the empty string; over a
\* jar without expired entries isEmpty() is true exactly when count() is 0.
\* A call of one of them gives what the string document.cookie had when the
\* call began determines: its emptiness, and over a jar without expired
\* entries the number and the keys of its segments.
C26_CountsAgree ==
    /\ [](/\ count(cookies, now).ret = Num(Len(all(cookies, now).ret))
          /\ Len(keys(cookies, now).ret) = Len(all(cookies, now).ret)
          /\ \A i \in 1..Len(all(cookies, now).ret) :
                keys(cookies, now).ret[i] = all(cookies, now).ret[i].key
          /\ isNotEmpty(cookies, now).ret = Bool(isEmpty(cookies, now).ret = Bool(FALSE))
          /\ isEmpty(cookies, now).ret = Bool(Len(Doc) = 0)
          /\ NoneExpired =>
                ( isEmpty(cookies, now).ret = Bool(TRUE)
                    <=> count(cookies, now).ret = Num(0) ))
    /\ [][/\ last'.op = "isEmpty" => last'.ret = Bool(Len(Doc) = 0)
          /\ last'.op = "isNotEmpty" => last'.ret = Bool(Len(Doc) # 0)
          /\ ( last'.op = "count" /\ NoneExpired ) =>
                last'.ret = Num(Len(Segments(Doc)))
          /\ ( last'.op = "all" /\ NoneExpired ) =>
                Len(last'.ret) = Len(Segments(Doc))
          /\ ( last'.op = "keys" /\ NoneExpired ) =>
                last'.ret = [i \in 1..Len(Segments(Doc)) |->
                                RunUntil(Segments(Doc)[i], "=", 1)]]_vars

\* keys() listed two keys in the order of the entries, and count() is 2
C26_Witness ==
    /\ last.op = "keys"
    /\ last.ret = << << "k" >>, << "a" >> >>
    /\ count(cookies, now).ret = Num(2)
    /\ isNotEmpty(cookies, now).ret = Bool(TRUE)

\* two values of an option are the same value, or both of them stand for an
\* option that is not given
SameOption(a, b) == a = b \/ (IsNullish(a) /\ IsNullish(b))

\* C27: a set, and a remember, leave the ttl and the expires of the
\* attributes object they are given as they were; so a set with an object
\* that was made without a ttl and without an expires writes no expires
\* segment when there is no default validity period, and the expiration
\* now + M seconds when the default validity period is M.
C27_SetLeavesAttributesAlone ==
    /\ [][last'.op \in { "set", "remember" } =>
             /\ SameOption(held'.obj.ttl, held.obj.ttl)
             /\ SameOption(held'.obj.expires, held.obj.expires)]_vars
    /\ []( ( /\ last.op = "set"
             /\ ~last.threw
             /\ held.made.ttl = Undefined
             /\ held.made.expires = Undefined ) =>
               ExpiresSegment(last.ret.s) =
                   IF ttl = Null THEN << >> ELSE InSeconds(now, ttl.n) )

\* the methods that are to read only
ReadOps == { "get", "all", "has", "hasAny", "isEmpty", "isNotEmpty", "keys", "count", "dump" }

\* every entry of the jar after is an entry of the jar before, in its order:
\* reading document.cookie makes the jar drop entries that have expired
RECURSIVE Remains(_, _)
Remains(after, before) ==
    IF after = << >> THEN TRUE
    ELSE IF before = << >> THEN FALSE
    ELSE IF Head(after) = Head(before) THEN Remains(Tail(after), Tail(before))
    ELSE JarExpired(Head(before).expires, now) /\ Remains(after, Tail(before))

\* C28: a call of get with a fallback that is no function, of all, has,
\* hasAny, isEmpty, isNotEmpty, keys, count or dump assigns nothing to
\* document.cookie and leaves the default validity period and every entry
\* that has not expired as they were; the default validity period changes
\* only in a call of ttl, which makes it the value given, assigns nothing to
\* document.cookie and leaves the jar as it was.
C28_ReadsWriteNothing ==
    [][/\ ( last'.op \in ReadOps /\ last'.fallback.t # "function" ) =>
             /\ last'.writes = << >>
             /\ ~last'.threw
             /\ ttl' = ttl
             /\ Remains(cookies', cookies)
             /\ NoneExpired => cookies' = cookies
       /\ ttl' # ttl => last'.op = "ttl"
       /\ last'.op = "ttl" =>
             /\ ttl' = last'.value
             /\ last'.writes = << >>
             /\ cookies' = cookies]_vars

\* hasAny was called while the default validity period was 1 second, over a
\* jar with an entry written before the period was given and one written
\* after, and both are as they were
C28_Witness ==
    /\ last.op = "hasAny"
    /\ last.writes = << >>
    /\ ttl = Num(1)
    /\ Len(cookies) = 2
    /\ cookies[1].expires = Null
    /\ cookies[2].expires # Null
    /\ NoneExpired

\* two calls gave the same: what they return, whether they throw, what they
\* assign to document.cookie, and the jar they leave
SameOutcome(a, b) ==
    /\ a.ret = b.ret
    /\ a.threw = b.threw
    /\ a.writes = b.writes
    /\ a.jar = b.jar

\* C29: in every state, each method of the UMD build gives, for the same
\* arguments, what the method of the source gives, and leaves the same jar:
\* set, get with and without a fallback, remember, all, remove, clear, has,
\* hasAny, isEmpty, isNotEmpty, keys, count and touch (ttl is one assignment
\* in both).
C29_BuildMatchesSource ==
    /\ \A key \in { << "k" >>, << "a" >> } :
          /\ \A fallback \in Fallbacks :
                SameOutcome(getUmd(cookies, now, key, fallback),
                            get(cookies, now, key, fallback))
          /\ \A value \in { Circular, Str(<< "v" >>) } :
                SameOutcome(rememberUmd(cookies, ttl, now, key, Fn(value), NoAttributes),
                            remember(cookies, ttl, now, key, Fn(value), NoAttributes))
          /\ SameOutcome(hasUmd(cookies, now, key), has(cookies, now, key))
          /\ \A t \in { Undefined, Num(1) } :
                SameOutcome(touchUmd(cookies, ttl, now, key, t, NoAttributes),
                            touch(cookies, ttl, now, key, t, NoAttributes))
    /\ \A list \in SomeHasAnyArgs :
          SameOutcome(hasAnyUmd(cookies, now, list), hasAny(cookies, now, list))
    /\ SameOutcome(allUmd(cookies, now), all(cookies, now))
    /\ SameOutcome(clearUmd(cookies, ttl, now, NoAttributes),
                   clear(cookies, ttl, now, NoAttributes))
    /\ SameOutcome(keysUmd(cookies, now), keys(cookies, now))
    /\ SameOutcome(countUmd(cookies, now), count(cookies, now))
    /\ SameOutcome(isEmptyUmd(cookies, now), isEmpty(cookies, now))
    /\ SameOutcome(isNotEmptyUmd(cookies, now), isNotEmpty(cookies, now))

=============================================================================
